---- MODULE Spec2Model ----
(***************************************************************************)
(* A model of the SBX frequency-list export of Sparv                       *)
(* (sparv/modules/stats_export/sbx_stats.py):                              *)
(*   - the marker state machine of install_sbx_freq_list<suffix> and       *)
(*     uninstall_sbx_freq_list<suffix>, one step per statement;            *)
(*   - the annotator conditional_best_complemgram;                         *)
(*   - the exporter sbx_freq_list and the frequency list it delegates to;  *)
(*   - inspect_workdir_file of sparv/core/dev.py.                          *)
(* Python strings are TLA+ strings; Len, \o and SubSeq act on them         *)
(* character by character.  None is read as the empty string: the code     *)
(* only ever tests host for truth.                                         *)
(***************************************************************************)
EXTENDS Integers, Sequences, FiniteSets, TLC

VARIABLES
    \* ---- configuration of the corpus (Config(...), Corpus()) and the variant
    cfg,               \* [host, remote_dir, compression, corpus_id]
    variant,           \* index into InstVariants of the installer under study
    \* ---- durable state
    markers,           \* names of the marker files that exist in the work directory
    remote,            \* set of locations that hold an artifact: <<kind, host, path or URL>>
    \* ---- the installer call (current, or the last one made)
    ipc,               \* "idle" | "transport" | "remove" | "write"
    ifault,            \* the step the environment makes raise in this call
    ipre,              \* the value of markers when the call began
    icalls,            \* transport calls the call has made
    ires,              \* "none" | "running" | "ok" | "config_error" | "transport_error" | "io_error"
    \* ---- the uninstaller call
    upc, ufault, upre, ucalls, ures,
    \* ---- history of completed calls
    last_op,           \* "none" | "install" | "uninstall": the last call that completed
    streak,            \* successful calls of last_op in a row, saturating at MaxStreak
    prev_streak,       \* the streak of the other operation that this streak ended
    \* ---- conditional_best_complemgram
    cpc, complemgrams, sense, out_complemgrams,
    \* ---- sbx_freq_list
    fpc, source_files, annot, cutoff, delimiter, freq_dict, out_rows, out,
    serial_caller,     \* TRUE: the caller runs installer calls one after another
    \* ---- inspect_workdir_file
    dpc,               \* "off" | "start" | "read" | "config" | "retry" | "done"
    is_file,           \* BOOLEAN: file_path.is_file()
    pinned,            \* the compression argument as the caller gave it ("": None)
    compression_local, \* the local variable `compression`
    io_compression,    \* the module-level setting io.compression
    config_missing,    \* what snake_utils.load_config({}) will return
    config_compression,\* what config.get("sparv.compression") will return ("": None)
    config_loads,      \* calls of snake_utils.load_config made
    reads,             \* read attempts made: [codec |-> io.compression then, ok |-> BOOLEAN]
    result             \* "none" | "True" | "False": the value returned

instVars == <<serial_caller, cfg, variant, markers, remote,
              ipc, ifault, ipre, icalls, ires,
              upc, ufault, upre, ucalls, ures,
              last_op, streak, prev_streak>>
condVars == <<cpc, complemgrams, sense, out_complemgrams>>
freqVars == <<fpc, source_files, annot, cutoff, delimiter, freq_dict, out_rows, out>>
inspVars == <<dpc, is_file, pinned, compression_local, io_compression,
              config_missing, config_compression, config_loads, reads, result>>
vars == <<instVars, condVars, freqVars, inspVars>>

(***************************************************************************)
(* Bounds                                                                  *)
(***************************************************************************)
MaxStreak == 2

(***************************************************************************)
(* Python string and path primitives used by the installers                *)
(***************************************************************************)
\* Truth value of a str: `if host`, `if not target_dir`.
Truthy(s) == s /= ""

\* str.startswith
startswith(s, prefix) ==
    Len(s) >= Len(prefix) /\ SubSeq(s, 1, Len(prefix)) = prefix

\* str.rstrip(chars) for a single character
RECURSIVE rstrip(_, _)
rstrip(s, c) ==
    IF Len(s) > 0 /\ SubSeq(s, Len(s), Len(s)) = c
    THEN rstrip(SubSeq(s, 1, Len(s) - 1), c)
    ELSE s

\* pathlib: a path keeps no empty component and no trailing "/".
RECURSIVE PathNormSlow(_)
PathNormSlow(p) ==
    IF Len(p) <= 1 THEN p
    ELSE IF SubSeq(p, 1, 2) = "//" THEN PathNormSlow(SubSeq(p, 2, Len(p)))
    ELSE IF Len(p) = 2 /\ SubSeq(p, 2, 2) = "/" THEN SubSeq(p, 1, 1)
    ELSE SubSeq(p, 1, 1) \o PathNormSlow(SubSeq(p, 2, Len(p)))

PathNorm(p) ==
    IF /\ \A i \in 1..(Len(p) - 1) : SubSeq(p, i, i + 1) # "//"
       /\ (Len(p) <= 1 \/ SubSeq(p, Len(p), Len(p)) # "/")
    THEN p
    ELSE PathNormSlow(p)

\* Path(p).name: the final component
PathName(p) ==
    LET q == PathNorm(p)
        slashes == {i \in 1..Len(q) : SubSeq(q, i, i) = "/"}
        lastSlash == IF slashes = {} THEN 0
                     ELSE CHOOSE i \in slashes : \A j \in slashes : j <= i
    IN  SubSeq(q, lastSlash + 1, Len(q))

\* Path(dir) / name, for a relative name
PathJoin(dir, name) ==
    LET d == PathNorm(dir)
    IN  IF d = "" THEN name
        ELSE IF d = "/" THEN d \o name
        ELSE d \o "/" \o name

\* str.removeprefix
removeprefix(s, prefix) ==
    IF startswith(s, prefix) THEN SubSeq(s, Len(prefix) + 1, Len(s)) ELSE s

(***************************************************************************)
(* The variant tables: `for inst in (...)` and `for uninst in (...)`       *)
(***************************************************************************)
InstVariants == <<
    [suffix |-> "", extension |-> FALSE],
    [suffix |-> "_compressed", dir_suffix |-> "", extension |-> TRUE],
    [suffix |-> "_date", extension |-> FALSE],
    [suffix |-> "_date_compressed", dir_suffix |-> "", extension |-> TRUE],
    [suffix |-> "_simple", extension |-> FALSE],
    [suffix |-> "_simple_compressed", dir_suffix |-> "_simple", extension |-> TRUE],
    [suffix |-> "_fsv", extension |-> FALSE],
    [suffix |-> "_fsv_compressed", dir_suffix |-> "_fsv", extension |-> TRUE],
    [suffix |-> "_1800", extension |-> FALSE],
    [suffix |-> "_1800_compressed", dir_suffix |-> "_1800", extension |-> TRUE] >>

UninstVariants == <<
    [suffix |-> "", compressed |-> FALSE],
    [suffix |-> "_compressed", compressed |-> TRUE],
    [suffix |-> "_date", compressed |-> FALSE],
    [suffix |-> "_date_compressed", compressed |-> TRUE],
    [suffix |-> "_simple", compressed |-> FALSE],
    [suffix |-> "_simple_compressed", compressed |-> TRUE],
    [suffix |-> "_fsv", compressed |-> FALSE],
    [suffix |-> "_fsv_compressed", compressed |-> TRUE],
    [suffix |-> "_1800", compressed |-> FALSE],
    [suffix |-> "_1800_compressed", compressed |-> TRUE] >>

\* inst.get('dir_suffix', inst['suffix'])
DirSuffix(inst) ==
    IF "dir_suffix" \in DOMAIN inst THEN inst.dir_suffix ELSE inst.suffix

\* The directory exports are written to.
ExportDir == "export"

\* ExportInput(f"stats_export.frequency_list_sbx{...}/stats_[metadata.id].csv{inst['extension']}"),
\* with [metadata.id] and [stats_export.compression] expanded from the configuration.
InstallFreqList(inst, c) ==
    ExportDir \o "/stats_export.frequency_list_sbx" \o DirSuffix(inst)
        \o "/stats_" \o c.corpus_id \o ".csv"
        \o (IF inst.extension THEN "." \o c.compression ELSE "")

\* OutputMarker / MarkerOptional names of the installer
InstallMarker(inst) == "stats_export.install_sbx_freq_list" \o inst.suffix \o "_marker"
InstallUninstallMarker(inst) == "stats_export.uninstall_sbx_freq_list" \o inst.suffix \o "_marker"

\* OutputMarker / MarkerOptional names of the uninstaller
UninstallMarker(uninst) == "stats_export.uninstall_sbx_freq_list" \o uninst.suffix \o "_marker"
UninstallInstallMarker(uninst) == "stats_export.install_sbx_freq_list" \o uninst.suffix \o "_marker"

\* uninstaller=f"stats_export:uninstall_sbx_freq_list{inst['suffix']}": the uninstaller
\* registered under the name the installer gives.
UninstallerOf(inst) ==
    CHOOSE i \in 1..Len(UninstVariants) : UninstVariants[i].suffix = inst.suffix

Inst == InstVariants[variant]
Uninst == UninstVariants[UninstallerOf(Inst)]

(***************************************************************************)
(* The transports (sparv.api.util.install) and the marker files            *)
(***************************************************************************)
\* Where install_svn(source, url, remove_existing=True) commits: the URL
\* without its "svn+" scheme prefix.
SvnLocation(url) == <<"svn", "", removeprefix(url, "svn+")>>

\* Where install_path(source, host, target_dir) puts the file: in the target
\* directory on the host, under the source's file name.
InstallPathLocation(source, host, target_dir) ==
    <<"path", host, PathJoin(target_dir, PathName(source))>>

\* What uninstall_path(remote_file, host) deletes.
UninstallPathLocation(remote_file, host) == <<"path", host, PathNorm(remote_file)>>

\* Marker.write() / MarkerOptional.remove(): the file exists / no longer exists.
MarkerWrite(ms, name) == ms \cup {name}
MarkerRemove(ms, name) == ms \ {name}

(***************************************************************************)
(* install_sbx_freq_list                                                   *)
(***************************************************************************)
Faults == {"none", "transport", "remove", "write"}

Min(a, b) == IF a <= b THEN a ELSE b

\* Bookkeeping when a call of `op` completes (ok: without raising).
Completed(op, ok) ==
    /\ last_op' = op
    /\ streak' = IF ~ok THEN 0
                 ELSE IF last_op = op /\ streak > 0 THEN Min(streak + 1, MaxStreak)
                 ELSE 1
    /\ prev_streak' = IF ~ok THEN 0
                      ELSE IF last_op = op /\ streak > 0 THEN prev_streak
                      ELSE streak


\* Faulty variant: the scheme test without its "+", `host.startswith("svn")`.
UsesSvn_AnySvn(host) == Truthy(host) /\ startswith(host, "svn")

\* `if host and host.startswith("svn+")`
UsesSvn(host) == Truthy(host) /\ startswith(host, "svn+")

\* `url = host.rstrip("/") + "/" + Path(freq_list).name`
InstallUrl(host, freq_list) == rstrip(host, "/") \o "/" \o PathName(freq_list)

\* The transport call install makes: lines 570-574.
InstallTransportCall(host, target_dir, freq_list) ==
    IF UsesSvn(host)
    THEN [fn |-> "install_svn", args |-> <<freq_list, InstallUrl(host, freq_list)>>,
          remove_existing |-> TRUE]
    ELSE [fn |-> "install_path", args |-> <<freq_list, host, target_dir>>]

\* The location a transport call writes to or removes.
TransportLocation(call) ==
    CASE call.fn = "install_svn" -> SvnLocation(call.args[2])
      [] call.fn = "install_path" -> InstallPathLocation(call.args[1], call.args[2], call.args[3])
      [] call.fn = "uninstall_svn" -> SvnLocation(call.args[1])
      [] call.fn = "uninstall_path" -> UninstallPathLocation(call.args[1], call.args[2])

\* No other call of the variant is in progress (the scheduler runs one job at a time).
Serialized == ipc = "idle" /\ upc = "idle"


\* Faulty variant: a call that finds its own marker returns at once ("install once").
InstallEnter_SkipIfMarked ==
    /\ ipc = "idle"
    /\ ipre' = markers
    /\ icalls' = <<>>
    /\ IF InstallMarker(Inst) \in markers
       THEN /\ ires' = "ok"
            /\ ifault' = "none"
            /\ ipc' = "idle"
            /\ Completed("install", TRUE)
       ELSE IF ~Truthy(cfg.remote_dir)
       THEN /\ ires' = "config_error"
            /\ ifault' = "none"
            /\ ipc' = "idle"
            /\ Completed("install", FALSE)
       ELSE /\ ires' = "running"
            /\ \E f \in Faults : ifault' = f
            /\ ipc' = "transport"
            /\ UNCHANGED <<last_op, streak, prev_streak>>
    /\ UNCHANGED <<serial_caller, cfg, variant, markers, remote, upc, ufault, upre, ucalls, ures>>

\* Faulty variant: the check its docstring describes, "if neither host nor target
\* directory is specified".
InstallEnter_NeitherHostNorDir ==
    /\ ipc = "idle"
    /\ ipre' = markers
    /\ icalls' = <<>>
    /\ IF ~Truthy(cfg.host) /\ ~Truthy(cfg.remote_dir)
       THEN /\ ires' = "config_error"
            /\ ifault' = "none"
            /\ ipc' = "idle"
            /\ Completed("install", FALSE)
       ELSE /\ ires' = "running"
            /\ \E f \in Faults : ifault' = f
            /\ ipc' = "transport"
            /\ UNCHANGED <<last_op, streak, prev_streak>>
    /\ UNCHANGED <<serial_caller, cfg, variant, markers, remote, upc, ufault, upre, ucalls, ures>>

\* Entry and `if not target_dir: raise SparvErrorMessage(...)`
InstallEnter ==
    /\ ipc = "idle"
    /\ ipre' = markers
    /\ icalls' = <<>>
    /\ IF ~Truthy(cfg.remote_dir)
       THEN /\ ires' = "config_error"
            /\ ifault' = "none"
            /\ ipc' = "idle"
            /\ Completed("install", FALSE)
       ELSE /\ ires' = "running"
            /\ \E f \in Faults : ifault' = f
            /\ ipc' = "transport"
            /\ UNCHANGED <<last_op, streak, prev_streak>>
    /\ UNCHANGED <<serial_caller, cfg, variant, markers, remote, upc, ufault, upre, ucalls, ures>>

InstallStart == Serialized /\ InstallEnter /\ UNCHANGED <<condVars, freqVars, inspVars>>


\* Faulty variant: the transport's exception is swallowed and the call goes on.
InstallTransport_Swallow ==
    /\ ipc = "transport"
    /\ LET call == InstallTransportCall(cfg.host, cfg.remote_dir, InstallFreqList(Inst, cfg))
       IN  /\ icalls' = Append(icalls, call)
           /\ IF ifault = "transport"
              THEN remote' \in {remote, remote \cup {TransportLocation(call)}}
              ELSE remote' = remote \cup {TransportLocation(call)}
           /\ ipc' = "remove"
           /\ UNCHANGED <<ires, last_op, streak, prev_streak>>
    /\ UNCHANGED <<serial_caller, cfg, variant, markers, ifault, ipre, upc, ufault, upre, ucalls, ures>>
    /\ UNCHANGED <<condVars, freqVars, inspVars>>

\* `install_svn(...)` or `install_path(...)`; a transport that raises may or
\* may not have left the file behind.
InstallTransport ==
    /\ ipc = "transport"
    /\ LET call == InstallTransportCall(cfg.host, cfg.remote_dir, InstallFreqList(Inst, cfg))
       IN  /\ icalls' = Append(icalls, call)
           /\ IF ifault = "transport"
              THEN /\ remote' \in {remote, remote \cup {TransportLocation(call)}}
                   /\ ires' = "transport_error"
                   /\ ipc' = "idle"
                   /\ Completed("install", FALSE)
              ELSE /\ remote' = remote \cup {TransportLocation(call)}
                   /\ ipc' = "remove"
                   /\ UNCHANGED <<ires, last_op, streak, prev_streak>>
    /\ UNCHANGED <<serial_caller, cfg, variant, markers, ifault, ipre, upc, ufault, upre, ucalls, ures>>
    /\ UNCHANGED <<condVars, freqVars, inspVars>>


\* Faulty variant: the uninstall marker is left in place.
InstallRemoveMarker_Skip ==
    /\ ipc = "remove"
    /\ IF ifault = "remove"
       THEN /\ ires' = "io_error"
            /\ ipc' = "idle"
            /\ Completed("install", FALSE)
       ELSE /\ ipc' = "write"
            /\ UNCHANGED <<ires, last_op, streak, prev_streak>>
    /\ UNCHANGED <<serial_caller, cfg, variant, markers, remote, ifault, ipre, icalls,
                   upc, ufault, upre, ucalls, ures>>
    /\ UNCHANGED <<condVars, freqVars, inspVars>>

\* Faulty variant: the two marker statements in the other order, the
\* install marker written where the uninstall marker should be removed.
InstallRemoveMarker_WriteFirst ==
    /\ ipc = "remove"
    /\ IF ifault = "remove"
       THEN /\ ires' = "io_error"
            /\ ipc' = "idle"
            /\ Completed("install", FALSE)
            /\ UNCHANGED markers
       ELSE /\ markers' = MarkerWrite(markers, InstallMarker(Inst))
            /\ ipc' = "write"
            /\ UNCHANGED <<ires, last_op, streak, prev_streak>>
    /\ UNCHANGED <<serial_caller, cfg, variant, remote, ifault, ipre, icalls,
                   upc, ufault, upre, ucalls, ures>>
    /\ UNCHANGED <<condVars, freqVars, inspVars>>

\* `uninstall_marker.remove()`
InstallRemoveMarker ==
    /\ ipc = "remove"
    /\ IF ifault = "remove"
       THEN /\ ires' = "io_error"
            /\ ipc' = "idle"
            /\ Completed("install", FALSE)
            /\ UNCHANGED markers
       ELSE /\ markers' = MarkerRemove(markers, InstallUninstallMarker(Inst))
            /\ ipc' = "write"
            /\ UNCHANGED <<ires, last_op, streak, prev_streak>>
    /\ UNCHANGED <<serial_caller, cfg, variant, remote, ifault, ipre, icalls, upc, ufault, upre, ucalls, ures>>
    /\ UNCHANGED <<condVars, freqVars, inspVars>>

\* `marker.write()` and return
InstallWriteMarker ==
    /\ ipc = "write"
    /\ IF ifault = "write"
       THEN /\ ires' = "io_error"
            /\ Completed("install", FALSE)
            /\ UNCHANGED markers
       ELSE /\ markers' = MarkerWrite(markers, InstallMarker(Inst))
            /\ ires' = "ok"
            /\ Completed("install", TRUE)
    /\ ipc' = "idle"
    /\ UNCHANGED <<serial_caller, cfg, variant, remote, ifault, ipre, icalls, upc, ufault, upre, ucalls, ures>>
    /\ UNCHANGED <<condVars, freqVars, inspVars>>

(***************************************************************************)
(* uninstall_sbx_freq_list                                                 *)
(***************************************************************************)

\* Faulty variant: the codec extension is never appended.
UninstallFile_NoExtension(corpus_id, compression, use_compression) ==
    "stats_" \o corpus_id \o ".csv"

\* `uninstall_file = f"stats_{corpus_id}.csv" + (f".{compression}" if use_compression else "")`
UninstallFile(corpus_id, compression, use_compression) ==
    "stats_" \o corpus_id \o ".csv" \o (IF use_compression THEN "." \o compression ELSE "")

\* `url = host.rstrip("/") + "/" + uninstall_file`
UninstallUrl(host, uninstall_file) == rstrip(host, "/") \o "/" \o uninstall_file

\* The transport call uninstall makes: lines 626-633.
UninstallTransportCall(host, remote_dir, uninstall_file) ==
    IF UsesSvn(host)
    THEN [fn |-> "uninstall_svn", args |-> <<UninstallUrl(host, uninstall_file)>>]
    ELSE [fn |-> "uninstall_path",
          args |-> <<PathJoin(IF Truthy(remote_dir) THEN remote_dir ELSE "", uninstall_file), host>>]

\* Entry and `if not remote_dir: raise SparvErrorMessage(...)`
UninstallEnter ==
    /\ upc = "idle"
    /\ upre' = markers
    /\ ucalls' = <<>>
    /\ IF ~Truthy(cfg.remote_dir)
       THEN /\ ures' = "config_error"
            /\ ufault' = "none"
            /\ upc' = "idle"
            /\ Completed("uninstall", FALSE)
       ELSE /\ ures' = "running"
            /\ \E f \in Faults : ufault' = f
            /\ upc' = "transport"
            /\ UNCHANGED <<last_op, streak, prev_streak>>
    /\ UNCHANGED <<serial_caller, cfg, variant, markers, remote, ipc, ifault, ipre, icalls, ires>>

UninstallStart == Serialized /\ UninstallEnter /\ UNCHANGED <<condVars, freqVars, inspVars>>

\* `uninstall_svn(url)` or `uninstall_path(remote_file, host)`
UninstallTransport ==
    /\ upc = "transport"
    /\ LET call == UninstallTransportCall(cfg.host, cfg.remote_dir,
                       UninstallFile(cfg.corpus_id, cfg.compression, Uninst.compressed))
       IN  /\ ucalls' = Append(ucalls, call)
           /\ IF ufault = "transport"
              THEN /\ remote' \in {remote, remote \ {TransportLocation(call)}}
                   /\ ures' = "transport_error"
                   /\ upc' = "idle"
                   /\ Completed("uninstall", FALSE)
              ELSE /\ remote' = remote \ {TransportLocation(call)}
                   /\ upc' = "remove"
                   /\ UNCHANGED <<ures, last_op, streak, prev_streak>>
    /\ UNCHANGED <<serial_caller, cfg, variant, markers, ufault, upre, ipc, ifault, ipre, icalls, ires>>
    /\ UNCHANGED <<condVars, freqVars, inspVars>>

\* Faulty variant: the install marker is left in place.
UninstallRemoveMarker_Skip ==
    /\ upc = "remove"
    /\ IF ufault = "remove"
       THEN /\ ures' = "io_error"
            /\ upc' = "idle"
            /\ Completed("uninstall", FALSE)
       ELSE /\ upc' = "write"
            /\ UNCHANGED <<ures, last_op, streak, prev_streak>>
    /\ UNCHANGED <<serial_caller, cfg, variant, markers, remote, ufault, upre, ucalls,
                   ipc, ifault, ipre, icalls, ires>>
    /\ UNCHANGED <<condVars, freqVars, inspVars>>

\* `install_marker.remove()`
UninstallRemoveMarker ==
    /\ upc = "remove"
    /\ IF ufault = "remove"
       THEN /\ ures' = "io_error"
            /\ upc' = "idle"
            /\ Completed("uninstall", FALSE)
            /\ UNCHANGED markers
       ELSE /\ markers' = MarkerRemove(markers, UninstallInstallMarker(Uninst))
            /\ upc' = "write"
            /\ UNCHANGED <<ures, last_op, streak, prev_streak>>
    /\ UNCHANGED <<serial_caller, cfg, variant, remote, ufault, upre, ucalls, ipc, ifault, ipre, icalls, ires>>
    /\ UNCHANGED <<condVars, freqVars, inspVars>>

\* `marker.write()` and return
UninstallWriteMarker ==
    /\ upc = "write"
    /\ IF ufault = "write"
       THEN /\ ures' = "io_error"
            /\ Completed("uninstall", FALSE)
            /\ UNCHANGED markers
       ELSE /\ markers' = MarkerWrite(markers, UninstallMarker(Uninst))
            /\ ures' = "ok"
            /\ Completed("uninstall", TRUE)
    /\ upc' = "idle"
    /\ UNCHANGED <<serial_caller, cfg, variant, remote, ufault, upre, ucalls, ipc, ifault, ipre, icalls, ires>>
    /\ UNCHANGED <<condVars, freqVars, inspVars>>

(***************************************************************************)
(* Specification of the installers, their calls run one at a time          *)
(***************************************************************************)
Hosts == {"", "h", "svn", "svn+https://x/repo", "svn+https://x/repo/"}
RemoteDirs == {"", "ignored", "d/"}
Compressions == {"gz"}
CorpusIds == {"X"}

CondOff ==
    /\ cpc = "off"
    /\ complemgrams = <<>>
    /\ sense = <<>>
    /\ out_complemgrams = <<>>

FreqOff ==
    /\ fpc = "off"
    /\ source_files = <<>>
    /\ annot = <<>>
    /\ cutoff = 0
    /\ delimiter = ","
    /\ freq_dict = <<>>
    /\ out_rows = <<>>
    /\ out = <<>>

InstOff ==
    /\ serial_caller = TRUE
    /\ cfg = [host |-> "", remote_dir |-> "", compression |-> "gz", corpus_id |-> "X"]
    /\ variant = 1
    /\ markers = {}
    /\ remote = {}
    /\ ipc = "off" /\ ifault = "none" /\ ipre = {} /\ icalls = <<>> /\ ires = "none"
    /\ upc = "off" /\ ufault = "none" /\ upre = {} /\ ucalls = <<>> /\ ures = "none"
    /\ last_op = "none" /\ streak = 0 /\ prev_streak = 0

InspOff ==
    /\ dpc = "off"
    /\ is_file = FALSE
    /\ pinned = "" /\ compression_local = ""
    /\ io_compression = "none"
    /\ config_missing = FALSE /\ config_compression = ""
    /\ config_loads = 0
    /\ reads = <<>>
    /\ result = "none"

InstInit ==
    /\ serial_caller = TRUE
    /\ cfg \in [host : Hosts, remote_dir : RemoteDirs,
                compression : Compressions, corpus_id : CorpusIds]
    /\ variant \in 1..Len(InstVariants)
    /\ markers \in SUBSET {InstallMarker(InstVariants[variant]),
                           InstallUninstallMarker(InstVariants[variant])}
    /\ remote = {}
    /\ ipc = "idle" /\ ifault = "none" /\ ipre = {} /\ icalls = <<>> /\ ires = "none"
    /\ upc = "idle" /\ ufault = "none" /\ upre = {} /\ ucalls = <<>> /\ ures = "none"
    /\ last_op = "none" /\ streak = 0 /\ prev_streak = 0

Init == InstInit /\ CondOff /\ FreqOff /\ InspOff

Next ==
    \/ InstallStart
    \/ InstallTransport
    \/ InstallRemoveMarker
    \/ InstallWriteMarker
    \/ UninstallStart
    \/ UninstallTransport
    \/ UninstallRemoveMarker
    \/ UninstallWriteMarker

Spec == Init /\ [][Next]_vars

(***************************************************************************)
(* Properties of the installers                                            *)
(***************************************************************************)
HasInstallMarker == ("stats_export.install_sbx_freq_list" \o Inst.suffix \o "_marker") \in markers
HasUninstallMarker == ("stats_export.uninstall_sbx_freq_list" \o Inst.suffix \o "_marker") \in markers

InstallJustDone(res) == Serialized /\ last_op = "install" /\ ires = res
UninstallJustDone(res) == Serialized /\ last_op = "uninstall" /\ ures = res

\* C1: with calls run one at a time, after every call that completes
\* successfully the two markers of the variant are never both present: after
\* install the install-marker is present and the uninstall-marker absent,
\* after uninstall the reverse, whatever the markers were when it began.
C1_MarkersExclusiveAfterSuccess ==
    /\ InstallJustDone("ok") => (HasInstallMarker /\ ~HasUninstallMarker)
    /\ UninstallJustDone("ok") => (HasUninstallMarker /\ ~HasInstallMarker)

\* C1 witness: an install that began with both markers present has completed.
C1_Witness ==
    /\ InstallJustDone("ok")
    /\ Cardinality(ipre) = 2
    /\ HasInstallMarker /\ ~HasUninstallMarker

\* C2: n >= 1 successful installs in a row leave the same marker state as one
\* (install-marker present, uninstall-marker absent); a following successful
\* uninstall leaves the reverse regardless of n, and so do repeated
\* uninstalls; and a call on which nothing raises is never rejected: it makes
\* its transport call and ends ok even when its own marker was already there.
C2_Idempotent ==
    /\ (Serialized /\ last_op = "install" /\ streak >= 1)
          => (HasInstallMarker /\ ~HasUninstallMarker)
    /\ (Serialized /\ last_op = "uninstall" /\ streak >= 1)
          => (HasUninstallMarker /\ ~HasInstallMarker)
    /\ (ipc = "idle" /\ ires # "none" /\ Truthy(cfg.remote_dir) /\ ifault = "none")
          => (ires = "ok" /\ Len(icalls) = 1)
    /\ (upc = "idle" /\ ures # "none" /\ Truthy(cfg.remote_dir) /\ ufault = "none")
          => (ures = "ok" /\ Len(ucalls) = 1)

\* C2 witness: a second install in a row, begun with the install-marker
\* present, has completed.
C2_Witness ==
    /\ Serialized /\ last_op = "install" /\ streak >= 2
    /\ ipre = {InstallMarker(Inst)}
    /\ ires = "ok" /\ Len(icalls) = 1
    /\ HasInstallMarker /\ ~HasUninstallMarker

\* C3: when the transport step raises, the call ends in error with both
\* markers as they were when it began; the marker steps are reached only
\* after the transport call has returned successfully.
C3_TransportFailureKeepsMarkers ==
    /\ ipc = "transport" => icalls = <<>>
    /\ upc = "transport" => ucalls = <<>>
    /\ (ipc = "transport" /\ upc = "idle") => markers = ipre
    /\ (upc = "transport" /\ ipc = "idle") => markers = upre
    /\ ipc \in {"remove", "write"} => (Len(icalls) = 1 /\ ifault # "transport")
    /\ upc \in {"remove", "write"} => (Len(ucalls) = 1 /\ ufault # "transport")
    /\ InstallJustDone("transport_error") => (markers = ipre /\ ifault = "transport")
    /\ UninstallJustDone("transport_error") => (markers = upre /\ ufault = "transport")
    /\ (ipc = "idle" /\ ifault = "transport") => ires = "transport_error"
    /\ (upc = "idle" /\ ufault = "transport") => ures = "transport_error"

\* C3 witness: an install whose transport raised has ended, the
\* uninstall-marker it found is still there and no install-marker was written.
C3_Witness ==
    /\ InstallJustDone("transport_error")
    /\ Len(icalls) = 1
    /\ ipre = {InstallUninstallMarker(Inst)}
    /\ markers = ipre

ArtifactName ==
    "stats_" \o cfg.corpus_id \o ".csv" \o (IF Inst.extension THEN "." \o cfg.compression ELSE "")

\* C5: with a non-empty target directory install calls exactly one transport:
\* install_svn exactly when host is non-empty and begins with "svn+", committing
\* at <host URL>/<artifact file name> (the target directory plays no part);
\* install_path with (host, target_dir) for every other host, the empty one
\* included.  host "svn+https://x/repo", artifact stats_X.csv commits to
\* https://x/repo/stats_X.csv.
C5_TransportSelection ==
    /\ Len(icalls) <= 1
    /\ (ipc \in {"remove", "write"} \/ (ipc = "idle" /\ ires \in {"ok", "transport_error", "io_error"}))
          => Len(icalls) = 1
    /\ Len(icalls) = 1 =>
          LET call == icalls[1]
              svn == cfg.host # "" /\ Len(cfg.host) >= 4 /\ SubSeq(cfg.host, 1, 4) = "svn+"
          IN  /\ Truthy(cfg.remote_dir)
              /\ svn <=> call.fn = "install_svn"
              /\ ~svn <=> call.fn = "install_path"
              /\ svn => /\ PathName(call.args[1]) = ArtifactName
                        /\ call.remove_existing
                        /\ call.args[2] = rstrip(cfg.host, "/") \o "/" \o ArtifactName
                        /\ TransportLocation(call) =
                              <<"svn", "", rstrip(SubSeq(cfg.host, 5, Len(cfg.host)), "/")
                                               \o "/" \o ArtifactName>>
              /\ ~svn => /\ PathName(call.args[1]) = ArtifactName
                         /\ call.args[2] = cfg.host
                         /\ call.args[3] = cfg.remote_dir
              /\ (cfg.host = "svn+https://x/repo" /\ ArtifactName = "stats_X.csv")
                    => TransportLocation(call) = <<"svn", "", "https://x/repo/stats_X.csv">>

\* C5 witness: install(host="svn+https://x/repo", targetDir="ignored",
\* artifact stats_X.csv) has completed and the file is at
\* https://x/repo/stats_X.csv.
C5_Witness ==
    /\ cfg.host = "svn+https://x/repo" /\ cfg.remote_dir = "ignored"
    /\ PathName(InstallFreqList(Inst, cfg)) = "stats_X.csv"
    /\ InstallJustDone("ok")
    /\ remote = {<<"svn", "", "https://x/repo/stats_X.csv">>}
    /\ HasInstallMarker

\* C6: uninstall removes the file "stats_<corpusId>.csv", with "." and the
\* codec identifier appended exactly for a compressed variant; that is the
\* file name of the artifact install of the same variant published, the
\* location removed is the location install wrote (the same URL under svn+,
\* remoteDir joined with the file name under the path transport), and after
\* a successful uninstall no artifact of the variant is left on the remote.
C6_UninstallRemovesWhatInstallPublished ==
    /\ Len(ucalls) <= 1
    /\ Len(ucalls) = 1 =>
          LET call == ucalls[1]
              loc == TransportLocation(call)
              svn == cfg.host # "" /\ Len(cfg.host) >= 4 /\ SubSeq(cfg.host, 1, 4) = "svn+"
          IN  /\ PathName(loc[3]) = ArtifactName
              /\ PathName(loc[3]) = PathName(InstallFreqList(Inst, cfg))
              /\ svn <=> call.fn = "uninstall_svn"
              /\ ~svn <=> call.fn = "uninstall_path"
              /\ ~svn => /\ loc[2] = cfg.host
                         /\ call.args[1] = PathJoin(cfg.remote_dir, ArtifactName)
              /\ Len(icalls) = 1 => loc = TransportLocation(icalls[1])
    /\ UninstallJustDone("ok") => remote = {}

\* C6 witness: a compressed variant was installed and then uninstalled over
\* the path transport, and the remote is empty again.
C6_Witness ==
    /\ Inst.extension
    /\ cfg.host = "h"
    /\ UninstallJustDone("ok") /\ ires = "ok" /\ prev_streak >= 1
    /\ Len(icalls) = 1 /\ Len(ucalls) = 1
    /\ remote = {}

(***************************************************************************)
(* conditional_best_complemgram                                            *)
(***************************************************************************)
MaxCondTokens == 2

ComplemgramValues == {"", "c", "a+b:0.9"}
SenseValues == {"", "|", "x", "||"}

\* complemgrams.read_attributes((complemgrams, sense)): one tuple of values per
\* token, in token order.
ReadAttributes(a, b) == [i \in 1..Min(Len(a), Len(b)) |-> <<a[i], b[i]>>]

\* Faulty variant: the test loses its truth test, `if sense_val != "|"`.
SuppressIf_NoTruthTest(complemgram, sense_val) ==
    IF sense_val # "|" THEN "" ELSE complemgram

\* The loop body: `if sense_val and sense_val != "|": complemgram = ""`
SuppressIf(complemgram, sense_val) ==
    IF Truthy(sense_val) /\ sense_val # "|" THEN "" ELSE complemgram

\* `for complemgram, sense_val in all_annotations: ... short_complemgrams.append(complemgram)`
RECURSIVE ShortComplemgrams(_, _)
ShortComplemgrams(all_annotations, short_complemgrams) ==
    IF all_annotations = <<>> THEN short_complemgrams
    ELSE ShortComplemgrams(Tail(all_annotations),
             Append(short_complemgrams,
                    SuppressIf(Head(all_annotations)[1], Head(all_annotations)[2])))

\* The annotator: reads both annotations, writes the output annotation.
ConditionalBestComplemgram ==
    /\ cpc = "ready"
    /\ out_complemgrams' = ShortComplemgrams(ReadAttributes(complemgrams, sense), <<>>)
    /\ cpc' = "done"
    /\ UNCHANGED <<complemgrams, sense>>
    /\ UNCHANGED <<instVars, freqVars, inspVars>>

CondInit ==
    /\ cpc = "ready"
    /\ \E n \in 0..MaxCondTokens :
          /\ complemgrams \in [1..n -> ComplemgramValues]
          /\ sense \in [1..n -> SenseValues]
    /\ out_complemgrams = <<>>

InitCond == CondInit /\ InstOff /\ FreqOff /\ InspOff

NextCond == ConditionalBestComplemgram

SpecCond == InitCond /\ [][NextCond]_vars

\* C7: the suppression is applied token by token: the output has as many
\* values as the input, in token order, and the value at position i is ""
\* when the sense value at i is non-empty and not "|", and the complemgram
\* value at i otherwise; it depends on no other position.
C7_SuppressionPerToken ==
    cpc = "done" =>
        /\ Len(out_complemgrams) = Len(complemgrams)
        /\ \A i \in 1..Len(complemgrams) :
              out_complemgrams[i] =
                  CASE sense[i] = "" -> complemgrams[i]
                    [] sense[i] = "|" -> complemgrams[i]
                    [] OTHER -> ""

\* C7 witness: one token suppressed by its sense, its neighbours kept.
C7_Witness ==
    /\ cpc = "done"
    /\ complemgrams = <<"c", "a+b:0.9">>
    /\ sense = <<"x", "|">>
    /\ out_complemgrams = <<"", "a+b:0.9">>

(***************************************************************************)
(* sbx_freq_list and the frequency list it delegates to                    *)
(***************************************************************************)
MaxFiles == 2
MaxCorpusTokens == 4

\* The annotation values of one token, by annotation.
Tokens == {
    [word |-> "a", msd |-> "NN", baseform |-> "a", sense |-> "", lemgram |-> "", complemgram |-> ""],
    [word |-> "b", msd |-> "NN", baseform |-> "b", sense |-> "", lemgram |-> "", complemgram |-> ""],
    [word |-> "a", msd |-> "VB", baseform |-> "a", sense |-> "", lemgram |-> "", complemgram |-> ""] }

Cutoffs == {0, 2, 3}
Delimiters == {","}

\* Characters in code point order, for the comparison of str values.
CodePoints == "+,.0123456789:ABCDEFGHIJKLMNOPQRSTUVWXYZ_abcdefghijklmnopqrstuvwxyz|"
Ord(c) == CHOOSE i \in 1..Len(CodePoints) : SubSeq(CodePoints, i, i) = c

\* str < str
RECURSIVE StrLess(_, _)
StrLess(a, b) ==
    IF b = "" THEN FALSE
    ELSE IF a = "" THEN TRUE
    ELSE IF Head(a) = Head(b) THEN StrLess(Tail(a), Tail(b))
    ELSE Ord(Head(a)) < Ord(Head(b))

\* tuple < tuple: the first differing column decides
RECURSIVE TupleLess(_, _)
TupleLess(k1, k2) ==
    IF k2 = <<>> THEN FALSE
    ELSE IF k1 = <<>> THEN TRUE
    ELSE IF Head(k1) = Head(k2) THEN TupleLess(Tail(k1), Tail(k2))
    ELSE StrLess(Head(k1), Head(k2))

\* str(int)
RECURSIVE IntToStr(_)
IntToStr(n) ==
    IF n < 10 THEN SubSeq("0123456789", n + 1, n + 1)
    ELSE IntToStr(n \div 10) \o SubSeq("0123456789", (n % 10) + 1, (n % 10) + 1)

\* One line of the csv writer: the fields joined by the delimiter.
RECURSIVE JoinFields(_, _)
JoinFields(fields, delim) ==
    IF fields = <<>> THEN ""
    ELSE IF Len(fields) = 1 THEN Head(fields)
    ELSE Head(fields) \o delim \o JoinFields(Tail(fields), delim)

\* The key of token i of a file: one value per column, in column order.
TokenKey(tokens, i, annotations) ==
    [c \in 1..Len(annotations) |-> tokens[i][annotations[c][1]]]

\* `freq_dict[key] += 1`
CountKey(freq, key) ==
    [k \in DOMAIN freq \cup {key} |->
        IF k = key THEN (IF k \in DOMAIN freq THEN freq[k] + 1 ELSE 1) ELSE freq[k]]

\* The tokens of one file, in token order.
RECURSIVE CountFile(_, _, _, _)
CountFile(freq, tokens, i, annotations) ==
    IF i > Len(tokens) THEN freq
    ELSE CountFile(CountKey(freq, TokenKey(tokens, i, annotations)), tokens, i + 1, annotations)

\* Faulty variant: the table is started afresh for every source file.
RECURSIVE CountFiles_Restart(_, _, _, _)
CountFiles_Restart(freq, files, an, annotations) ==
    IF files = <<>> THEN freq
    ELSE CountFiles_Restart(CountFile(<<>>, an[Head(files)], 1, annotations),
                            Tail(files), an, annotations)

\* The source files, in the order of the list.
RECURSIVE CountFiles(_, _, _, _)
CountFiles(freq, files, an, annotations) ==
    IF files = <<>> THEN freq
    ELSE CountFiles(CountFile(freq, an[Head(files)], 1, annotations), Tail(files), an, annotations)

\* Merging two tables: the counts are added key by key.
Merge(t1, t2) ==
    [k \in DOMAIN t1 \cup DOMAIN t2 |->
        (IF k \in DOMAIN t1 THEN t1[k] ELSE 0) + (IF k \in DOMAIN t2 THEN t2[k] ELSE 0)]

\* Row order of the written table: count descending, then key ascending.
RowBefore(freq, k1, k2) ==
    \/ freq[k1] > freq[k2]
    \/ freq[k1] = freq[k2] /\ TupleLess(k1, k2)

RECURSIVE SortedKeys(_, _)
SortedKeys(freq, keys) ==
    IF keys = {} THEN <<>>
    ELSE LET first == CHOOSE k \in keys : \A other \in keys \ {k} : RowBefore(freq, k, other)
         IN  <<first>> \o SortedKeys(freq, keys \ {first})

\* The cutoff: keys whose count is below it are dropped.
KeptKeys(freq, min_count) == {k \in DOMAIN freq : freq[k] >= min_count}

\* The rows handed to the csv writer: the header, then one row per kept key.
CsvRows(column_names, freq, min_count) ==
    LET keys == SortedKeys(freq, KeptKeys(freq, min_count))
    IN  <<column_names \o <<"count">> >>
            \o [r \in 1..Len(keys) |-> keys[r] \o <<IntToStr(freq[keys[r]])>>]

\* The lines of the written file.
CsvLines(rows, delim) == [r \in 1..Len(rows) |-> JoinFields(rows[r], delim)]

\* freq_list(source_files, ..., annotations, ..., delimiter, cutoff): the table
\* and the rows written.
FreqList(files, an, annotations, min_count) ==
    LET freq == CountFiles(<<>>, files, an, annotations)
    IN  [freq_dict |-> freq,
         rows |-> CsvRows([c \in 1..Len(annotations) |-> annotations[c][2]], freq, min_count)]

\* Faulty variant: lemma and SALDO sense change places.
Annotations_Swapped == <<
    <<"word", "token">>,
    <<"msd", "POS">>,
    <<"sense", "SALDO sense">>,
    <<"baseform", "lemma">>,
    <<"lemgram", "lemgram">>,
    <<"complemgram", "compound">> >>

\* `annotations = [(word, "token"), (msd, "POS"), ...]`
Annotations == <<
    <<"word", "token">>,
    <<"msd", "POS">>,
    <<"baseform", "lemma">>,
    <<"sense", "SALDO sense">>,
    <<"lemgram", "lemgram">>,
    <<"complemgram", "compound">> >>

\* Faulty variant: the configured cutoff is not handed on to freq_list.
SbxFreqList_CutoffNotForwarded ==
    /\ fpc = "ready"
    /\ LET res == FreqList(source_files, annot, Annotations, 0)
       IN  /\ freq_dict' = res.freq_dict
           /\ out_rows' = res.rows
           /\ out' = CsvLines(res.rows, delimiter)
    /\ fpc' = "done"
    /\ UNCHANGED <<source_files, annot, cutoff, delimiter>>
    /\ UNCHANGED <<instVars, condVars, inspVars>>

\* The exporter: `freq_list(source_files=source_files, ..., annotations=annotations,
\* ..., delimiter=delimiter, cutoff=cutoff)`
SbxFreqList ==
    /\ fpc = "ready"
    /\ LET res == FreqList(source_files, annot, Annotations, cutoff)
       IN  /\ freq_dict' = res.freq_dict
           /\ out_rows' = res.rows
           /\ out' = CsvLines(res.rows, delimiter)
    /\ fpc' = "done"
    /\ UNCHANGED <<source_files, annot, cutoff, delimiter>>
    /\ UNCHANGED <<instVars, condVars, inspVars>>

\* A corpus: up to MaxFiles source files holding up to MaxCorpusTokens tokens
\* between them.
FreqInit ==
    /\ fpc = "ready"
    /\ \E n \in 0..MaxFiles, t \in 0..MaxCorpusTokens :
          \E toks \in [1..t -> Tokens], cuts \in [0..n -> 0..t] :
              /\ cuts[0] = 0 /\ cuts[n] = t
              /\ \A f \in 1..n : cuts[f - 1] <= cuts[f]
              /\ source_files = [f \in 1..n |-> f]
              /\ annot = [f \in 1..n |-> SubSeq(toks, cuts[f - 1] + 1, cuts[f])]
    /\ cutoff \in Cutoffs
    /\ delimiter \in Delimiters
    /\ freq_dict = <<>>
    /\ out_rows = <<>>
    /\ out = <<>>

InitFreq == FreqInit /\ InstOff /\ CondOff /\ InspOff

NextFreq == SbxFreqList

SpecFreq == InitFreq /\ [][NextFreq]_vars

(***************************************************************************)
(* Properties of the frequency list                                        *)
(***************************************************************************)
Workers == {1, 2}

\* The key of a token, column by column in declared order.
KeyOf(tok) == <<tok.word, tok.msd, tok.baseform, tok.sense, tok.lemgram, tok.complemgram>>

AllKeys == {KeyOf(tok) : tok \in Tokens}

\* The occurrences of a key over every token of every source file.
TotalCount(key) ==
    Cardinality({pos \in UNION {{<<f, i>> : i \in 1..Len(annot[f])} : f \in DOMAIN annot} :
                    KeyOf(annot[pos[1]][pos[2]]) = key})

\* The occurrences of a key in one file.
FileCount(f, key) ==
    Cardinality({i \in 1..Len(annot[f]) : KeyOf(annot[f][i]) = key})

\* The partial table of the files a worker is given.
WorkerTable(assign, w) ==
    LET Mine(f) == assign[f] = w
    IN  CountFiles(<<>>, SelectSeq(source_files, Mine), annot, Annotations)

\* The data rows of the written table: <<key, count field>>.
DataRows(rows) == {<<SubSeq(rows[r], 1, Len(rows[r]) - 1), rows[r][Len(rows[r])]>> : r \in 2..Len(rows)}

\* C8: for a fixed corpus, column list and cutoff the frequency table and the
\* written output are the same for every permutation of the source-file list
\* and for every partition of the files among workers whose partial tables
\* are merged by adding counts per key, in any merge order; merging is
\* commutative and associative.
C8_AggregationDeterministic ==
    fpc = "done" =>
        /\ \A p \in Permutations(DOMAIN source_files) :
              LET files == [i \in DOMAIN source_files |-> source_files[p[i]]]
                  res == FreqList(files, annot, Annotations, cutoff)
              IN  /\ res.freq_dict = freq_dict
                  /\ res.rows = out_rows
                  /\ CsvLines(res.rows, delimiter) = out
        /\ \A assign \in [DOMAIN source_files -> Workers] :
              /\ Merge(WorkerTable(assign, 1), WorkerTable(assign, 2)) = freq_dict
              /\ Merge(WorkerTable(assign, 2), WorkerTable(assign, 1)) = freq_dict
        /\ LET tables == {CountFile(<<>>, annot[f], 1, Annotations) : f \in DOMAIN annot}
                             \cup {freq_dict}
           IN  \A a \in tables, b \in tables, c \in tables :
                  /\ Merge(a, b) = Merge(b, a)
                  /\ Merge(Merge(a, b), c) = Merge(a, Merge(b, c))
        /\ \A key \in AllKeys :
              IF TotalCount(key) = 0 THEN key \notin DOMAIN freq_dict
              ELSE key \in DOMAIN freq_dict /\ freq_dict[key] = TotalCount(key)

\* C8 witness: two files with different tokens, sharing a key, have been counted.
C8_Witness ==
    /\ fpc = "done"
    /\ Len(source_files) = 2
    /\ annot[1] # annot[2] /\ Len(annot[1]) = 2 /\ Len(annot[2]) = 2
    /\ \E key \in AllKeys : FileCount(1, key) = 1 /\ FileCount(2, key) = 2
    /\ Cardinality(DOMAIN freq_dict) = 2

\* C9: the cutoff is applied once to the merged table: a key is emitted
\* exactly when its count over every token of every file is >= minCount, with
\* that total count (also when its count in each single file is below
\* minCount); raising minCount never adds rows, and a key emitted at cutoff c
\* is emitted with the same count at every cutoff <= c.
C9_CutoffOnMergedTable ==
    fpc = "done" =>
        /\ \A key \in AllKeys :
              IF TotalCount(key) > 0 /\ TotalCount(key) >= cutoff
              THEN <<key, IntToStr(TotalCount(key))>> \in DataRows(out_rows)
              ELSE \A row \in DataRows(out_rows) : row[1] # key
        /\ Cardinality(DataRows(out_rows)) = Len(out_rows) - 1
        /\ \A c \in Cutoffs :
              LET rows_c == CsvRows([i \in 1..Len(Annotations) |-> Annotations[i][2]], freq_dict, c)
              IN  /\ c >= cutoff => (Len(rows_c) <= Len(out_rows)
                                       /\ DataRows(rows_c) \subseteq DataRows(out_rows))
                  /\ c <= cutoff => DataRows(out_rows) \subseteq DataRows(rows_c)

\* C9 witness: at cutoff 2 a key that occurs once in each of two files is
\* emitted with count 2, and a key that occurs once in all is dropped.
C9_Witness ==
    /\ fpc = "done" /\ cutoff = 2
    /\ Len(source_files) = 2
    /\ \E key \in AllKeys :
          /\ FileCount(1, key) = 1 /\ FileCount(2, key) = 1
          /\ <<key, "2">> \in DataRows(out_rows)
    /\ \E key \in AllKeys :
          /\ TotalCount(key) = 1
          /\ \A row \in DataRows(out_rows) : row[1] # key

\* Row r of the written table comes before row s in the declared order: a
\* larger count, or the same count and a smaller key at the first column
\* where the keys differ.
RowsInOrder(r, s) ==
    LET k1 == SubSeq(out_rows[r], 1, Len(out_rows[r]) - 1)
        k2 == SubSeq(out_rows[s], 1, Len(out_rows[s]) - 1)
    IN  \/ TotalCount(k1) > TotalCount(k2)
        \/ /\ TotalCount(k1) = TotalCount(k2)
           /\ \E c \in 1..Len(k1) :
                 /\ \A b \in 1..(c - 1) : k1[b] = k2[b]
                 /\ StrLess(k1[c], k2[c])

\* The scenario of two files with tokens ["a","b"] and ["a","a"] and the one
\* column "token".
ScenarioLines ==
    LET an == << <<[word |-> "a"], [word |-> "b"]>>, <<[word |-> "a"], [word |-> "a"]>> >>
    IN  CsvLines(FreqList(<<1, 2>>, an, << <<"word", "token">> >>, 0).rows, ",")

\* C10: the written table starts with one header row of the column display
\* names in declared order; the data rows are sorted by count descending,
\* rows of equal count by key ascending, compared column by column; no two
\* data rows carry the same key; tokens ["a","b"] and ["a","a"], one column,
\* cutoff 0, delimiter "," give the rows "a,3" then "b,1" after the header.
C10_HeaderAndRowOrder ==
    /\ ScenarioLines = <<"token,count", "a,3", "b,1">>
    /\ fpc = "done" =>
        /\ Len(out_rows) >= 1
        /\ out_rows[1] = <<"token", "POS", "lemma", "SALDO sense", "lemgram", "compound", "count">>
        /\ \A r \in 2..Len(out_rows) :
              /\ Len(out_rows[r]) = 7
              /\ <<out_rows[r][1], out_rows[r][2], out_rows[r][3],
                   out_rows[r][4], out_rows[r][5], out_rows[r][6]>> \in AllKeys
              /\ \E tok \in Tokens :
                    /\ out_rows[r][1] = tok.word /\ out_rows[r][2] = tok.msd
                    /\ out_rows[r][3] = tok.baseform /\ out_rows[r][4] = tok.sense
                    /\ out_rows[r][5] = tok.lemgram /\ out_rows[r][6] = tok.complemgram
                    /\ out_rows[r][7] = IntToStr(TotalCount(KeyOf(tok)))
        /\ \A r \in 2..Len(out_rows), t \in 2..Len(out_rows) : r < t => RowsInOrder(r, t)
        /\ Len(out) = Len(out_rows)
        /\ \A r \in 1..Len(out) : out[r] = JoinFields(out_rows[r], delimiter)

\* C10 witness: the files ["a","b"] and ["a","a"] at cutoff 0 have been written
\* as a,...,3 then b,...,1 under the header.
C10_Witness ==
    /\ fpc = "done" /\ cutoff = 0
    /\ Len(source_files) = 2
    /\ Len(annot[1]) = 2 /\ Len(annot[2]) = 2
    /\ [i \in 1..2 |-> annot[1][i].word] = <<"a", "b">>
    /\ [i \in 1..2 |-> annot[2][i].word] = <<"a", "a">>
    /\ out = <<"token,POS,lemma,SALDO sense,lemgram,compound,count",
               "a,NN,a,,,,3",
               "b,NN,b,,,,1">>


(***************************************************************************)
(* inspect_workdir_file (sparv/core/dev.py).                               *)
(*                                                                         *)
(* One call is modelled step by step.  The environment fixes, before the  *)
(* call, whether the file exists, which codec the caller pinned, whether   *)
(* the configuration is missing and which codec it names; the outcome of   *)
(* each read attempt is chosen when the attempt is made.                   *)
(***************************************************************************)

\* Values of the compression argument; "" stands for None.
PinnedCodecs == {"", "gzip", "bzip2", "lzma"}

\* Values of config.get("sparv.compression"); "" stands for None.
ConfigCodecs == {"", "gzip", "bzip2", "lzma"}

\* io.compression before the call: no codec in effect.
NoCodec == "none"

InspInit ==
    /\ dpc = "start"
    /\ is_file \in BOOLEAN
    /\ pinned \in PinnedCodecs
    /\ compression_local = pinned
    /\ io_compression = NoCodec
    /\ config_missing \in BOOLEAN
    /\ config_compression \in ConfigCodecs
    /\ config_loads = 0
    /\ reads = <<>>
    /\ result = "none"

\* return <value>
Return(value) ==
    /\ result' = IF value THEN "True" ELSE "False"
    /\ dpc' = "done"

\* read_and_print(): one read attempt under the codec now in effect; it
\* either prints the content (ok) or raises.
ReadAndPrint(ok) ==
    reads' = Append(reads, [codec |-> io_compression, ok |-> ok])

\* Faulty variant: the pinned codec is not put in effect before the read.
InspectEnter_PinIgnored ==
    /\ dpc = "start"
    /\ IF ~is_file
       THEN Return(FALSE)
       ELSE /\ dpc' = "read"
            /\ UNCHANGED result
    /\ UNCHANGED <<io_compression, is_file, pinned, compression_local,
                   config_missing, config_compression, config_loads, reads>>
    /\ UNCHANGED <<instVars, condVars, freqVars>>

\* Lines 20-34: the existence test, then the pinned codec is put in effect.
InspectEnter ==
    /\ dpc = "start"
    /\ IF ~is_file
       THEN /\ Return(FALSE)
            /\ UNCHANGED io_compression
       ELSE /\ io_compression' = IF Truthy(compression_local)
                                 THEN compression_local
                                 ELSE io_compression
            /\ dpc' = "read"
            /\ UNCHANGED result
    /\ UNCHANGED <<is_file, pinned, compression_local, config_missing,
                   config_compression, config_loads, reads>>
    /\ UNCHANGED <<instVars, condVars, freqVars>>

\* Faulty variant: a failed read under a pinned codec falls through to the
\* configuration.
InspectFirstRead_PinnedFallsThrough ==
    /\ dpc = "read"
    /\ \E ok \in BOOLEAN :
          /\ ReadAndPrint(ok)
          /\ IF ok
             THEN Return(TRUE)
             ELSE /\ dpc' = "config"
                  /\ UNCHANGED result
    /\ UNCHANGED <<is_file, pinned, compression_local, io_compression,
                   config_missing, config_compression, config_loads>>
    /\ UNCHANGED <<instVars, condVars, freqVars>>

\* Lines 37-43: the first read attempt; on failure a pinned codec ends the
\* call.
InspectFirstRead ==
    /\ dpc = "read"
    /\ \E ok \in BOOLEAN :
          /\ ReadAndPrint(ok)
          /\ IF ok
             THEN Return(TRUE)
             ELSE IF Truthy(compression_local)
                  THEN Return(FALSE)
                  ELSE /\ dpc' = "config"
                       /\ UNCHANGED result
    /\ UNCHANGED <<is_file, pinned, compression_local, io_compression,
                   config_missing, config_compression, config_loads>>
    /\ UNCHANGED <<instVars, condVars, freqVars>>

\* Lines 46-53: the configuration is loaded and its codec put in effect.
InspectLoadConfig ==
    /\ dpc = "config"
    /\ config_loads' = config_loads + 1
    /\ compression_local' = config_compression
    /\ IF config_missing \/ ~Truthy(config_compression)
       THEN /\ Return(FALSE)
            /\ UNCHANGED io_compression
       ELSE /\ io_compression' = config_compression
            /\ dpc' = "retry"
            /\ UNCHANGED result
    /\ UNCHANGED <<is_file, pinned, config_missing, config_compression, reads>>
    /\ UNCHANGED <<instVars, condVars, freqVars>>

\* Faulty variant: a failed retry goes back to the configuration.
InspectRetry_Again ==
    /\ dpc = "retry"
    /\ Len(reads) < 4
    /\ \E ok \in BOOLEAN :
          /\ ReadAndPrint(ok)
          /\ IF ok
             THEN Return(TRUE)
             ELSE /\ dpc' = "config"
                  /\ UNCHANGED result
    /\ UNCHANGED <<is_file, pinned, compression_local, io_compression,
                   config_missing, config_compression, config_loads>>
    /\ UNCHANGED <<instVars, condVars, freqVars>>

\* Lines 55-61: the second read attempt.
InspectRetry ==
    /\ dpc = "retry"
    /\ \E ok \in BOOLEAN :
          /\ ReadAndPrint(ok)
          /\ Return(ok)
    /\ UNCHANGED <<is_file, pinned, compression_local, io_compression,
                   config_missing, config_compression, config_loads>>
    /\ UNCHANGED <<instVars, condVars, freqVars>>

InitInspect == InspInit /\ InstOff /\ CondOff /\ FreqOff

NextInspect ==
    \/ InspectEnter
    \/ InspectFirstRead
    \/ InspectLoadConfig
    \/ InspectRetry

SpecInspect == InitInspect /\ [][NextInspect]_vars

\* The call runs to completion: each step that is enabled is eventually
\* taken (the function is sequential code whose reads and configuration
\* load are bounded).
SpecInspectFair == SpecInspect /\ WF_vars(NextInspect)

FirstReadFailed == Len(reads) >= 1 /\ ~reads[1].ok

\* C11: when the caller pinned a codec and the read under it fails, no
\* second read is made, the configuration is never loaded and the call
\* returns False; the configuration is loaded only when no codec was
\* pinned and the first read failed.
C11_PinnedCodecNeverFallsBack ==
    /\ Truthy(pinned) => config_loads = 0 /\ Len(reads) <= 1 /\ dpc # "config"
    /\ (Truthy(pinned) /\ FirstReadFailed) => dpc = "done" /\ result = "False"
    /\ (config_loads > 0 \/ dpc = "config") => ~Truthy(pinned) /\ FirstReadFailed

C11_Witness ==
    /\ dpc = "done"
    /\ pinned = "gzip"
    /\ reads = <<[codec |-> "gzip", ok |-> FALSE]>>
    /\ config_loads = 0
    /\ result = "False"

LastRead == reads[Len(reads)]

C12_Bounds ==
    /\ Len(reads) <= 2
    /\ config_loads <= 1
    /\ dpc = "done" =>
          /\ result \in {"True", "False"}
          /\ result = "True" <=> (Len(reads) >= 1 /\ LastRead.ok)
          /\ ~is_file => reads = <<>> /\ result = "False"
          /\ (FirstReadFailed /\ ~Truthy(pinned)
                /\ (config_missing \/ ~Truthy(config_compression)))
             => Len(reads) = 1 /\ config_loads = 1 /\ result = "False"
          /\ (Len(reads) = 2 /\ ~reads[2].ok) => result = "False"

\* C12: every call ends with a boolean after at most two read attempts and
\* at most one configuration load: no read and False when the file does not
\* exist; no retry and False when the first read fails and the
\* configuration is missing or names no codec; False when the retry fails;
\* True exactly when the last read attempt made succeeded.
C12_TerminatesWithinBounds == []C12_Bounds /\ <>(dpc = "done")

C12_Witness ==
    /\ dpc = "done"
    /\ Len(reads) = 2
    /\ ~reads[1].ok /\ reads[2].ok
    /\ config_loads = 1
    /\ result = "True"

\* C13 as stated: the first read attempt is made using no codec, and a
\* codec is in effect for reading only on the retry.
C13_FirstReadUsesNoCodec ==
    /\ Len(reads) >= 1 => reads[1].codec = NoCodec
    /\ \A i \in 1..Len(reads) : reads[i].codec # NoCodec => i = 2

\* C13, amended: the first read attempt is made under the codec the caller
\* pinned, and under no codec when none was pinned; a codec taken from the
\* configuration is in effect only for the retry, which happens only after
\* the first attempt failed with no codec pinned and the configuration,
\* present, named a codec.
C13_CodecInEffectPerAttempt ==
    /\ Len(reads) >= 1 =>
          reads[1].codec = IF Truthy(pinned) THEN pinned ELSE NoCodec
    /\ Len(reads) >= 2 =>
          /\ ~Truthy(pinned)
          /\ ~reads[1].ok
          /\ config_loads = 1
          /\ ~config_missing
          /\ Truthy(config_compression)
          /\ reads[2].codec = config_compression
    /\ dpc \in {"start", "read", "config"} /\ ~Truthy(pinned)
          => io_compression = NoCodec

C13_Witness ==
    /\ dpc = "done"
    /\ pinned = "bzip2"
    /\ reads = <<[codec |-> "bzip2", ok |-> TRUE]>>
    /\ result = "True"

(***************************************************************************)
(* Installer calls under a caller that does not serialize them.            *)
(*                                                                         *)
(* The steps of install_sbx_freq_list and uninstall_sbx_freq_list are the  *)
(* actions above; what changes is when a call may be entered.  A caller    *)
(* that serializes enters a call only when no call is running; one that    *)
(* does not may enter an install while an uninstall is running, and the    *)
(* other way round, so the steps of the two calls interleave.              *)
(***************************************************************************)

ConcurrentHosts == {"h", "svn+https://x/repo"}

\* The variants whose calls are interleaved: one plain, one compressed.
ConcurrentVariants == {1, 2}

InstallStartConcurrent ==
    /\ ~serial_caller
    /\ InstallEnter
    /\ UNCHANGED <<condVars, freqVars, inspVars>>

UninstallStartConcurrent ==
    /\ ~serial_caller
    /\ UninstallEnter
    /\ UNCHANGED <<condVars, freqVars, inspVars>>

ConcInit ==
    /\ serial_caller \in BOOLEAN
    /\ cfg \in [host : ConcurrentHosts, remote_dir : {"d/"},
                compression : Compressions, corpus_id : CorpusIds]
    /\ variant \in ConcurrentVariants
    /\ markers \in SUBSET {InstallMarker(InstVariants[variant]),
                           InstallUninstallMarker(InstVariants[variant])}
    /\ remote = {}
    /\ ipc = "idle" /\ ifault = "none" /\ ipre = {} /\ icalls = <<>> /\ ires = "none"
    /\ upc = "idle" /\ ufault = "none" /\ upre = {} /\ ucalls = <<>> /\ ures = "none"
    /\ last_op = "none" /\ streak = 0 /\ prev_streak = 0

InitConcurrent == ConcInit /\ CondOff /\ FreqOff /\ InspOff

NextConcurrent ==
    \/ InstallStart
    \/ InstallStartConcurrent
    \/ InstallTransport
    \/ InstallRemoveMarker
    \/ InstallWriteMarker
    \/ UninstallStart
    \/ UninstallStartConcurrent
    \/ UninstallTransport
    \/ UninstallRemoveMarker
    \/ UninstallWriteMarker

SpecConcurrent == InitConcurrent /\ [][NextConcurrent]_vars

\* Both calls have returned, the last install and the last uninstall both
\* succeeded, and both markers are present.
BothSucceededBothMarkers ==
    /\ ipc = "idle" /\ upc = "idle"
    /\ ires = "ok" /\ ures = "ok"
    /\ HasInstallMarker /\ HasUninstallMarker

\* C14: marker exclusivity relies on the caller serializing: when the calls
\* are serialized no state in which an install and an uninstall of the
\* variant have both completed successfully has both markers, while under
\* interleaved steps such a state is reached (C14_Witness).
C14_BothMarkersOnlyWhenInterleaved ==
    serial_caller => ~BothSucceededBothMarkers

C14_Witness ==
    /\ ~serial_caller
    /\ BothSucceededBothMarkers
    /\ ipre = {} /\ upre = {}

(***************************************************************************)
(* Serialized installer calls that start with at most one marker present.  *)
(***************************************************************************)

InitAtMostOneMarker == Init /\ Cardinality(markers) <= 1

SpecAtMostOneMarker == InitAtMostOneMarker /\ [][Next]_vars

InsideInstall == ipc \in {"transport", "remove", "write"}
InsideUninstall == upc \in {"transport", "remove", "write"}
InstallFailed == Serialized /\ last_op = "install" /\ ires \in {"transport_error", "io_error"}
UninstallFailed == Serialized /\ last_op = "uninstall" /\ ures \in {"transport_error", "io_error"}

\* C15: under serialized calls that start with at most one marker present,
\* no reachable state has both markers, whether between calls, inside a
\* call or after a call that failed at any step; inside a call and after
\* a failed call the markers are those of the call's entry or, once the
\* other call's marker has been removed, none at all.
C15_NeverBothMarkers ==
    /\ ~(HasInstallMarker /\ HasUninstallMarker)
    /\ Cardinality(markers) <= 1
    /\ (InsideInstall \/ InstallFailed) => markers \in {ipre, {}}
    /\ (InsideUninstall \/ UninstallFailed) => markers \in {upre, {}}
    /\ ipc = "write" => ~HasUninstallMarker
    /\ upc = "write" => ~HasInstallMarker

C15_Witness ==
    /\ InstallFailed
    /\ ifault = "write"
    /\ ipre = {InstallUninstallMarker(Inst)}
    /\ markers = {}

(***************************************************************************)
(* The exporters whose output the installers take.                         *)
(***************************************************************************)

\* The exporters sbx_freq_list<suffix>: the directory and the extension of
\* the Export path each declares as its output.
Exporters == <<
    [suffix |-> "", out_dir |-> "stats_export.frequency_list_sbx", extension |-> FALSE],
    [suffix |-> "_compressed", out_dir |-> "stats_export.frequency_list_sbx", extension |-> TRUE],
    [suffix |-> "_date", out_dir |-> "stats_export.frequency_list_sbx_date", extension |-> FALSE],
    [suffix |-> "_date_compressed", out_dir |-> "stats_export.frequency_list_sbx_date",
     extension |-> TRUE],
    [suffix |-> "_simple", out_dir |-> "stats_export.frequency_list_sbx_simple",
     extension |-> FALSE],
    [suffix |-> "_simple_compressed", out_dir |-> "stats_export.frequency_list_sbx_simple",
     extension |-> TRUE],
    [suffix |-> "_fsv", out_dir |-> "stats_export.frequency_list_sbx_fsv", extension |-> FALSE],
    [suffix |-> "_fsv_compressed", out_dir |-> "stats_export.frequency_list_sbx_fsv",
     extension |-> TRUE],
    [suffix |-> "_1800", out_dir |-> "stats_export.frequency_list_sbx_1800", extension |-> FALSE],
    [suffix |-> "_1800_compressed", out_dir |-> "stats_export.frequency_list_sbx_1800",
     extension |-> TRUE] >>

\* Export("<out_dir>/stats_[metadata.id].csv[.[stats_export.compression]]"), with
\* [metadata.id] and [stats_export.compression] expanded from the configuration.
ExporterOut(exp, c) ==
    ExportDir \o "/" \o exp.out_dir \o "/stats_" \o c.corpus_id \o ".csv"
        \o (IF exp.extension THEN "." \o c.compression ELSE "")

\* The exporter of the installer's variant: sbx_freq_list<suffix>.
ExporterOf(inst) ==
    CHOOSE i \in 1..Len(Exporters) : Exporters[i].suffix = inst.suffix

\* The uninstaller is registered under the installer's suffix, with the
\* installer's two marker names and the compressed flag of the artifact.
UninstallerMatches(inst) ==
    /\ \E i \in 1..Len(UninstVariants) : UninstVariants[i].suffix = inst.suffix
    /\ LET uninst == UninstVariants[UninstallerOf(inst)]
       IN  /\ UninstallMarker(uninst) = InstallUninstallMarker(inst)
           /\ UninstallInstallMarker(uninst) = InstallMarker(inst)
           /\ uninst.compressed = inst.extension

\* C16: for each installer variant, the artifact path the install call takes
\* as input (the source it hands to its transport) is the output path of
\* the exporter of the same variant, and the variant's uninstaller has the
\* same suffix, the same two marker names and a compressed flag that is
\* true exactly when the artifact carries the codec extension.
C16_InstallerTakesExporterOutput ==
    /\ Len(InstVariants) = 10 /\ Len(UninstVariants) = 10 /\ Len(Exporters) = 10
    /\ UninstallerMatches(Inst)
    /\ Exporters[ExporterOf(Inst)].extension = Inst.extension
    /\ icalls # <<>> =>
          icalls[1].args[1] = ExporterOut(Exporters[ExporterOf(Inst)], cfg)
====
